---- MODULE Spec2Model ----
(***************************************************************************)
(* Credential / session lifecycle and quota-gated admission of the OCR     *)
(* backend (app/services/auth.py, app/utils/security.py,                   *)
(* app/services/user.py, app/services/ocr.py, app/routers/admin.py).       *)
(*                                                                         *)
(* The document store is the shared state.  Every `await db.<op>` of a     *)
(* handler is one atomic store operation and one step of the handler;      *)
(* other handlers may run between two steps of the same handler.           *)
(***************************************************************************)
EXTENDS Integers, FiniteSets, Sequences, Bags, TLC

(***************************************************************************)
(* Time.  The clock counts ticks; TicksPerSecond ticks make a second, so   *)
(* the clock is finer than the whole seconds a JWT carries.                *)
(***************************************************************************)
TicksPerSecond == 2
Second == TicksPerSecond
Minute == 60 * Second
Hour == 60 * Minute
Day == 24 * Hour

ACCESS_TOKEN_EXPIRE_MINUTES == 30
REFRESH_TOKEN_EXPIRE_DAYS == 7
STANDARD_USER_DAILY_REQUEST_LIMIT == 10
STANDARD_USER_HISTORY_LIMIT == 30
HISTORY_CEILING == 100           \* `if limit > 100: limit = 100`

AccessTTL == ACCESS_TOKEN_EXPIRE_MINUTES * Minute
RefreshTTL == REFRESH_TOKEN_EXPIRE_DAYS * Day

(***************************************************************************)
(* Bounds of the model.                                                    *)
(***************************************************************************)
MaxPeriods == 1      \* clock samples cover 0 .. MaxPeriods lifetimes
MaxOffset == 0       \* ... and MaxOffset ticks past each lifetime boundary
MaxGateOffset == 1   \* the same, for the clock the access gate is sampled at
MaxTokens == 3       \* refresh credentials ever issued
MaxRecords == 12     \* usage records ever written
MaxAccounts == 2     \* accounts ever registered
MaxHistory == 101    \* usage records of an account in a store whose history is read

\* The instants the clock is sampled at: around every multiple of `period`.
Instants(period, offset) ==
    { t \in { k * period + j : k \in 0..MaxPeriods, j \in (-1)..offset } : t >= 0 }

Callers == {"c1", "c2"}          \* clients of the session and OCR endpoints
Admin == "adm"                   \* the client of the /admin endpoints
Procs == Callers \cup {Admin}

VARIABLES
    now,             \* datetime.utcnow(), in ticks
    users,           \* db.users: set of account documents
    refresh_tokens,  \* db.refresh_tokens: set of credential documents
    ocr_requests,    \* db.ocr_requests: bag of usage documents
    settings,        \* db.settings: the system_settings document, or NoDoc
    next_id,         \* source of ObjectId / uuid4 values never handed out twice
    calls            \* the request each caller has in flight, or its last result

vars == <<now, users, refresh_tokens, ocr_requests, settings, next_id, calls>>

(***************************************************************************)
(* Values.                                                                 *)
(***************************************************************************)
NoDoc == [none |-> TRUE]          \* Python None: find_one found nothing
Uuid(n) == <<"uuid4", n>>          \* the n-th value uuid.uuid4() returned
ForgedToken == Uuid(0)            \* a string the server never issued
NoJwt == [sub |-> "", exp |-> 0, sig |-> "none"]

Hash(password) == <<"bcrypt", password>>

Account(id, username, email, password, active, premium, admin) ==
    [_id |-> id, username |-> username, email |-> email,
     hashed_password |-> Hash(password), is_active |-> active,
     is_premium |-> premium, is_admin |-> admin]

SeedUsers ==
    { Account(1, "root", "root@x", "rootpw", TRUE, TRUE, TRUE),
      Account(2, "alice", "alice@x", "alicepw", TRUE, FALSE, FALSE) }

FirstFreeId == Cardinality(SeedUsers) + 1

Usernames == {"root", "alice"}
Passwords == {"rootpw", "alicepw"}

Idle ==
    [op |-> "idle", pc |-> "done", out |-> "none",
     token |-> ForgedToken, jwt |-> NoJwt, doc |-> NoDoc, user |-> NoDoc,
     access |-> NoJwt, expires_at |-> 0, refresh |-> ForgedToken,
     target |-> 0, data |-> NoDoc, seen |-> {}, page |-> << >>]

\* A call record at its start: the operation and its position.
Begin(op, pc) == [Idle EXCEPT !.op = op, !.pc = pc]
\* A call record at its end: the request, the outcome and what the client
\* receives; the handler's locals are gone.
End(call, out) ==
    [call EXCEPT !.pc = "done", !.out = out, !.doc = NoDoc, !.user = NoDoc,
                 !.data = NoDoc, !.target = 0]

\* The call record of a new request of a client that keeps its access token.
Request(held, op, pc) ==
    [Begin(op, pc) EXCEPT !.access = held.access, !.expires_at = held.expires_at]

InFlight(c) == calls[c].pc # "done"
AnyInFlight == \E c \in Procs : InFlight(c)

(***************************************************************************)
(* app/utils/security.py                                                   *)
(***************************************************************************)
verify_password(plain_password, hashed_password) ==
    hashed_password = Hash(plain_password)

\* jwt.encode: a datetime `exp` is written as whole seconds since the epoch
\* (the fraction of a second is dropped) and the payload is signed.
jwt_encode(sub, expire) ==
    [sub |-> sub, exp |-> expire \div Second, sig |-> "HS256"]

create_access_token(sub, clock) ==
    LET expire == clock + AccessTTL
    IN  [encoded_jwt |-> jwt_encode(sub, expire), expire |-> expire]

\* jwt.decode: the signature first, then `exp` against the clock.  A token is
\* expired from the very second its exp names (exp <= now).
jwt_expired(token, clock) == token.exp * Second <= clock

jwt_decode(token, clock) ==
    IF token.sig # "HS256" THEN "InvalidSignatureError"
    ELSE IF jwt_expired(token, clock) THEN "ExpiredSignatureError"
    ELSE "payload"

refresh_token_doc(token_value, user_id, clock) ==
    [_id |-> token_value, token |-> token_value, user_id |-> user_id,
     expires_at |-> clock + RefreshTTL, created_at |-> clock, revoked |-> FALSE]

\* Faulty variant: the token is not drawn anew and the document is written
\* revoked.
create_refresh_token_stale(coll, token_value, user_id, clock) ==
    coll \cup {[refresh_token_doc(token_value, user_id, clock) EXCEPT
                   !.token = Uuid(FirstFreeId), !.revoked = (coll # {})]}

\* create_refresh_token: a uuid4 no document carries yet, and insert_one.
create_refresh_token(coll, token_value, user_id, clock) ==
    coll \cup {refresh_token_doc(token_value, user_id, clock)}

get_user_by_username(coll, username) == { u \in coll : u.username = username }

get_user_by_id(coll, id) == { u \in coll : u._id = id }

\* Faulty variant: the is_active check left out.
get_current_user_unchecked(coll, token, clock) ==
    IF jwt_decode(token, clock) # "payload"
    THEN [out |-> "401_credentials", user |-> NoDoc]
    ELSE LET found == get_user_by_username(coll, token.sub)
         IN  IF found = {} THEN [out |-> "401_credentials", user |-> NoDoc]
             ELSE [out |-> "user", user |-> CHOOSE u \in found : TRUE]

\* Faulty variant: the token authenticates only while the account holds a
\* valid refresh credential.
get_current_user_in_session(coll, token, clock) ==
    IF jwt_decode(token, clock) # "payload"
    THEN [out |-> "401_credentials", user |-> NoDoc]
    ELSE LET found == get_user_by_username(coll, token.sub)
         IN  IF found = {} THEN [out |-> "401_credentials", user |-> NoDoc]
             ELSE LET u == CHOOSE x \in found : TRUE
                  IN  IF \A d \in refresh_tokens :
                            d.user_id = u._id => (d.revoked \/ d.expires_at <= clock)
                      THEN [out |-> "401_credentials", user |-> NoDoc]
                      ELSE IF ~u.is_active THEN [out |-> "401_disabled", user |-> NoDoc]
                      ELSE [out |-> "user", user |-> u]

\* get_current_user: "user" with the account, or the HTTP error raised.
get_current_user(coll, token, clock) ==
    IF jwt_decode(token, clock) # "payload"
    THEN [out |-> "401_credentials", user |-> NoDoc]
    ELSE LET found == get_user_by_username(coll, token.sub)
         IN  IF found = {} THEN [out |-> "401_credentials", user |-> NoDoc]
             ELSE LET user == CHOOSE u \in found : TRUE
                  IN  IF ~user.is_active
                      THEN [out |-> "401_disabled", user |-> NoDoc]
                      ELSE [out |-> "user", user |-> user]

get_current_active_user(coll, token, clock) ==
    LET current == get_current_user(coll, token, clock)
    IN  IF current.out = "user" /\ ~current.user.is_active
        THEN [out |-> "400_inactive", user |-> NoDoc]
        ELSE current

\* Faulty variant: the is_admin check left out.
get_current_admin_unchecked(coll, token, clock) ==
    get_current_user(coll, token, clock)

\* get_current_admin: the account of get_current_user, if it is an admin's.
get_current_admin(coll, token, clock) ==
    LET current == get_current_user(coll, token, clock)
    IN  IF current.out # "user" THEN current
        ELSE IF ~current.user.is_admin
             THEN [out |-> "403_forbidden", user |-> NoDoc]
             ELSE current

(***************************************************************************)
(* app/services/auth.py: the store operations of rotation and logout       *)
(***************************************************************************)
\* Faulty variants of the lookup: the filter without `revoked`, and without
\* `expires_at`.
find_ignoring_revoked(coll, token, clock) ==
    { d \in coll : d.token = token /\ d.expires_at > clock }

find_ignoring_expiry(coll, token, clock) ==
    { d \in coll : d.token = token /\ ~d.revoked }

\* find_one({"token": t, "revoked": False, "expires_at": {"$gt": utcnow()}})
find_valid_refresh_token(coll, token, clock) ==
    { d \in coll : d.token = token /\ ~d.revoked /\ d.expires_at > clock }

\* Faulty variant: the update flips the flag instead of setting it.
revoke_toggle(coll, id) ==
    { IF d._id = id THEN [d EXCEPT !.revoked = ~@] ELSE d : d \in coll }

\* update_one({"_id": token_doc["_id"]}, {"$set": {"revoked": True}})
revoke_by_id(coll, id) ==
    { IF d._id = id THEN [d EXCEPT !.revoked = TRUE] ELSE d : d \in coll }

\* Faulty variant: the filter without `revoked`, the update flipping the flag.
logout_toggle(coll, token) ==
    { IF d.token = token THEN [d EXCEPT !.revoked = ~@] ELSE d : d \in coll }

\* Faulty variant: logout removes the credential.
logout_delete(coll, token) == { d \in coll : d.token # token \/ d.revoked }

\* update_one({"token": t, "revoked": False}, {"$set": {"revoked": True}})
logout_update(coll, token) ==
    { IF d.token = token /\ ~d.revoked THEN [d EXCEPT !.revoked = TRUE] ELSE d
      : d \in coll }

(***************************************************************************)
(* What clients can send.                                                  *)
(***************************************************************************)
\* Refresh tokens not yet handed to a client: inserted by a rotation that has
\* not returned.
Unreturned == { calls[c].refresh : c \in { k \in Callers : InFlight(k) } }

\* A client presents a refresh token it was given, or a string of its own.
PresentableTokens ==
    ({ d.token : d \in refresh_tokens } \ Unreturned) \cup {ForgedToken}

\* Calls that will still insert a refresh credential.
WillInsert ==
    { c \in Callers : calls[c].pc \in {"login_insert", "rot_user", "rot_insert"} }

TokenBudget ==
    (next_id - FirstFreeId) + Cardinality(WillInsert) < MaxTokens

\* Ghost: why the lookup of a rotation would reject, read from the store.
Causes(coll, token, clock) ==
    LET same == { d \in coll : d.token = token }
    IN  (IF same = {} THEN {"absent"} ELSE {})
        \cup (IF \E d \in same : d.expires_at <= clock THEN {"expired"} ELSE {})
        \cup (IF \E d \in same : d.revoked THEN {"revoked"} ELSE {})

(***************************************************************************)
(* app/services/auth.py: register_user.  The users collection has a unique *)
(* index on email and one on username (app/database.py).                   *)
(***************************************************************************)
UserCreate(username, email, password) ==
    [username |-> username, email |-> email, password |-> password]

\* Calls that will still insert an account.
WillRegister == { c \in Callers : calls[c].pc \in {"reg_username", "reg_insert"} }

AccountBudget ==
    Cardinality(users) + Cardinality(WillRegister)
        < Cardinality(SeedUsers) + MaxAccounts

\* Faulty variant: the collection without its unique indexes.
duplicate_key_unindexed(coll, user) == FALSE

\* What insert_one does under the unique indexes: DuplicateKeyError when a
\* document holds the email or the username.
duplicate_key(coll, user) ==
    \E u \in coll : u.email = user.email \/ u.username = user.username

RegisterFindEmail(c, user) ==
    /\ ~InFlight(c)
    /\ AccountBudget
    /\ LET start == [Request(calls[c], "register", "reg_username") EXCEPT
                        !.data = user]
       IN  calls' = [calls EXCEPT ![c] =
              IF \E u \in users : u.email = user.email
              THEN End(start, "400_email") ELSE start]
    /\ UNCHANGED <<now, users, refresh_tokens, ocr_requests, settings, next_id>>

RegisterFindUsername(c) ==
    /\ calls[c].pc = "reg_username"
    /\ calls' = [calls EXCEPT ![c] =
          IF get_user_by_username(users, calls[c].data.username) # {}
          THEN End(calls[c], "400_username")
          ELSE [calls[c] EXCEPT !.pc = "reg_insert"]]
    /\ UNCHANGED <<now, users, refresh_tokens, ocr_requests, settings, next_id>>

\* insert_one: the account is stored under a fresh _id, or the index refuses
\* it and the exception reaches the global handler (500).
RegisterInsert(c) ==
    /\ calls[c].pc = "reg_insert"
    /\ LET user == calls[c].data
       IN  IF duplicate_key(users, user)
           THEN /\ calls' = [calls EXCEPT ![c] = End(calls[c], "500_error")]
                /\ UNCHANGED <<users, next_id>>
           ELSE /\ users' = users \cup
                      { Account(next_id, user.username, user.email,
                                user.password, TRUE, FALSE, FALSE) }
                /\ next_id' = next_id + 1
                /\ calls' = [calls EXCEPT ![c] = End(calls[c], "201_created")]
    /\ UNCHANGED <<now, refresh_tokens, ocr_requests, settings>>

(***************************************************************************)
(* app/services/auth.py: login_user                                        *)
(***************************************************************************)
\* authenticate_user: the account of that name whose password verifies.
authenticate_user(coll, username, password) ==
    { u \in get_user_by_username(coll, username) :
        verify_password(password, u.hashed_password) }

\* Faulty variant: an unknown handle is answered differently from a wrong
\* secret.
LoginAuthenticateLeaky(c, username, password) ==
    /\ ~InFlight(c)
    /\ LET found == authenticate_user(users, username, password)
       IN  IF found = {}
           THEN calls' = [calls EXCEPT ![c] =
                   End(Begin("login", "done"),
                       IF get_user_by_username(users, username) = {}
                       THEN "404_user" ELSE "401_login")]
           ELSE /\ TokenBudget
                /\ \E u \in found :
                     calls' = [calls EXCEPT ![c] =
                                 [Begin("login", "login_insert") EXCEPT !.user = u]]
    /\ UNCHANGED <<now, users, refresh_tokens, ocr_requests, settings, next_id>>

LoginAuthenticate(c, username, password) ==
    /\ ~InFlight(c)
    /\ LET found == authenticate_user(users, username, password)
       IN  IF found = {}
           THEN calls' = [calls EXCEPT ![c] = End(Begin("login", "done"), "401_login")]
           ELSE /\ TokenBudget
                /\ \E u \in found :
                     calls' = [calls EXCEPT ![c] =
                                 [Begin("login", "login_insert") EXCEPT !.user = u]]
    /\ UNCHANGED <<now, users, refresh_tokens, ocr_requests, settings, next_id>>

\* Faulty variant: a login ends the account's other sessions.
LoginInsertSingleSession(c) ==
    /\ calls[c].pc = "login_insert"
    /\ LET issued == create_access_token(calls[c].user.username, now)
           others == { IF d.user_id = calls[c].user._id
                       THEN [d EXCEPT !.revoked = TRUE] ELSE d : d \in refresh_tokens }
       IN  /\ refresh_tokens' =
                 create_refresh_token(others, Uuid(next_id), calls[c].user._id, now)
           /\ next_id' = next_id + 1
           /\ calls' = [calls EXCEPT ![c] =
                          End([calls[c] EXCEPT !.access = issued.encoded_jwt,
                                               !.expires_at = issued.expire,
                                               !.refresh = Uuid(next_id)], "token")]
    /\ UNCHANGED <<now, users, ocr_requests, settings>>

LoginInsert(c) ==
    /\ calls[c].pc = "login_insert"
    /\ LET issued == create_access_token(calls[c].user.username, now)
       IN  /\ refresh_tokens' =
                 create_refresh_token(refresh_tokens, Uuid(next_id),
                                      calls[c].user._id, now)
           /\ next_id' = next_id + 1
           /\ calls' = [calls EXCEPT ![c] =
                          End([calls[c] EXCEPT !.access = issued.encoded_jwt,
                                               !.expires_at = issued.expire,
                                               !.refresh = Uuid(next_id)], "token")]
    /\ UNCHANGED <<now, users, ocr_requests, settings>>

(***************************************************************************)
(* app/services/auth.py: refresh_access_token                              *)
(***************************************************************************)
RefreshFind(c, token) ==
    /\ ~InFlight(c)
    /\ LET found == find_valid_refresh_token(refresh_tokens, token, now)
           start == [Begin("refresh", "rot_user") EXCEPT
                        !.token = token,
                        !.seen = Causes(refresh_tokens, token, now)]
       IN  IF found = {}
           THEN calls' = [calls EXCEPT ![c] = End(start, "401_refresh_token")]
           ELSE /\ TokenBudget
                /\ \E d \in found :
                     calls' = [calls EXCEPT ![c] = [start EXCEPT !.doc = d]]
    /\ UNCHANGED <<now, users, refresh_tokens, ocr_requests, settings, next_id>>

\* Faulty variant: a rotation rejected for its account revokes the credential.
RefreshUserRevoking(c) ==
    /\ calls[c].pc = "rot_user"
    /\ LET found == get_user_by_id(users, calls[c].doc.user_id)
       IN  IF \A u \in found : ~u.is_active
           THEN /\ calls' = [calls EXCEPT ![c] = End(calls[c], "401_user")]
                /\ refresh_tokens' = revoke_by_id(refresh_tokens, calls[c].doc._id)
           ELSE /\ \E u \in found :
                     calls' = [calls EXCEPT ![c] =
                                 [calls[c] EXCEPT !.pc = "rot_insert", !.user = u]]
                /\ UNCHANGED refresh_tokens
    /\ UNCHANGED <<now, users, ocr_requests, settings, next_id>>

RefreshUser(c) ==
    /\ calls[c].pc = "rot_user"
    /\ LET found == get_user_by_id(users, calls[c].doc.user_id)
       IN  IF \A u \in found : ~u.is_active
           THEN calls' = [calls EXCEPT ![c] = End(calls[c], "401_user")]
           ELSE \E u \in found :
                  calls' = [calls EXCEPT ![c] =
                              [calls[c] EXCEPT !.pc = "rot_insert", !.user = u]]
    /\ UNCHANGED <<now, users, refresh_tokens, ocr_requests, settings, next_id>>

RefreshInsert(c) ==
    /\ calls[c].pc = "rot_insert"
    /\ LET issued == create_access_token(calls[c].user.username, now)
       IN  /\ refresh_tokens' =
                 create_refresh_token(refresh_tokens, Uuid(next_id),
                                      calls[c].user._id, now)
           /\ next_id' = next_id + 1
           /\ calls' = [calls EXCEPT ![c] =
                          [calls[c] EXCEPT !.pc = "rot_revoke",
                                           !.access = issued.encoded_jwt,
                                           !.expires_at = issued.expire,
                                           !.refresh = Uuid(next_id)]]
    /\ UNCHANGED <<now, users, ocr_requests, settings>>

RefreshRevoke(c) ==
    /\ calls[c].pc = "rot_revoke"
    /\ refresh_tokens' = revoke_by_id(refresh_tokens, calls[c].doc._id)
    /\ calls' = [calls EXCEPT ![c] = End(calls[c], "token")]
    /\ UNCHANGED <<now, users, ocr_requests, settings, next_id>>

\* Faulty variant: an aborted rotation takes back the credential it inserted.
RefreshAbortRollback(c) ==
    /\ calls[c].pc = "rot_revoke"
    /\ refresh_tokens' = { d \in refresh_tokens : d.token # calls[c].refresh }
    /\ calls' = [calls EXCEPT ![c] =
                   End([calls[c] EXCEPT !.access = NoJwt, !.expires_at = 0], "aborted")]
    /\ UNCHANGED <<now, users, ocr_requests, settings, next_id>>

\* The request is cancelled, or update_one raises, after the new credential
\* was inserted: no handler undoes the insert, the client gets no token pair.
RefreshAbort(c) ==
    /\ calls[c].pc = "rot_revoke"
    /\ calls' = [calls EXCEPT ![c] =
                   End([calls[c] EXCEPT !.access = NoJwt, !.expires_at = 0], "aborted")]
    /\ UNCHANGED <<now, users, refresh_tokens, ocr_requests, settings, next_id>>

(***************************************************************************)
(* app/services/auth.py: logout                                            *)
(***************************************************************************)
Logout(c, token) ==
    /\ ~InFlight(c)
    /\ refresh_tokens' = logout_update(refresh_tokens, token)
    /\ calls' = [calls EXCEPT ![c] =
                   End([Begin("logout", "done") EXCEPT !.token = token], "detail")]
    /\ UNCHANGED <<now, users, ocr_requests, settings, next_id>>

(***************************************************************************)
(* The clock.  Between two store operations of one request less than a     *)
(* minute passes: a request in flight ends long before any lifetime does.  *)
(***************************************************************************)
Tick(instants) ==
    /\ \E t \in instants :
         /\ t > now
         /\ AnyInFlight => t - now < Minute
         /\ now' = t
    /\ UNCHANGED <<users, refresh_tokens, ocr_requests, settings, next_id, calls>>

(***************************************************************************)
(* app/routers/admin.py and app/services/user.py: the /admin requests that *)
(* change accounts.  An Optional field of the request body is a set: empty *)
(* for None, else the one value sent.                                      *)
(***************************************************************************)
Body(email, is_active, is_premium, is_admin) ==
    [email |-> email, is_active |-> is_active, is_premium |-> is_premium,
     is_admin |-> is_admin]

\* update_data as admin_update_user builds it, applied by `$set`.
apply_update(u, data) ==
    [u EXCEPT
        !.email = IF data.email = {} THEN @ ELSE CHOOSE e \in data.email : TRUE,
        !.is_active = IF data.is_active = {} THEN @ ELSE TRUE \in data.is_active,
        !.is_premium = IF data.is_premium = {} THEN @ ELSE TRUE \in data.is_premium,
        !.is_admin = IF data.is_admin = {} THEN @ ELSE TRUE \in data.is_admin]

update_data_empty(data) ==
    data.email = {} /\ data.is_active = {} /\ data.is_premium = {} /\ data.is_admin = {}

\* users.update_one({"_id": id}, {"$set": update_data})
update_user(coll, id, data) ==
    { IF u._id = id THEN apply_update(u, data) ELSE u : u \in coll }

\* The ids a client may name: those of the accounts, and one of no account.
TargetIds == { u._id : u \in users } \cup {0}

\* An _id in a request path is its 24 hexadecimal digits, in the case the
\* client chose.  str(ObjectId) writes them in lower case; ObjectId(...) reads
\* either case.
str_id(id) == <<id, "lower">>
ObjectId(user_id) == user_id[1]
PathIds(ids) == { <<id, letters>> : id \in ids, letters \in {"lower", "upper"} }

\* The dependency of the /admin router, then what the endpoint does before its
\* service call.
AdminUpdateRequest(c, jwt, user_id, data) ==
    /\ ~InFlight(c)
    /\ LET current == get_current_admin(users, jwt, now)
           start == [Request(calls[c], "admin_update", "upd_find") EXCEPT
                        !.jwt = jwt, !.target = ObjectId(user_id),
                        !.data = data, !.user = current.user]
       IN  calls' = [calls EXCEPT ![c] =
              IF current.out # "user" THEN End(start, current.out)
              ELSE IF str_id(current.user._id) = user_id /\ data.is_admin = {FALSE}
                   THEN End(start, "400_self_demotion")
                   ELSE start]
    /\ UNCHANGED <<now, users, refresh_tokens, ocr_requests, settings, next_id>>

\* admin_update_user, its first store operation: find the account.
after_update_find(call) ==
    IF get_user_by_id(users, call.target) = {}
    THEN End(call, "404_user")
    ELSE [call EXCEPT !.pc =
             IF call.data.email # {} THEN "upd_email"
             ELSE IF update_data_empty(call.data) THEN "upd_reload"
             ELSE "upd_update"]

AdminUpdateFind(c) ==
    /\ calls[c].pc = "upd_find"
    /\ calls' = [calls EXCEPT ![c] = after_update_find(calls[c])]
    /\ UNCHANGED <<now, users, refresh_tokens, ocr_requests, settings, next_id>>

\* admin_update_user called for a request the router let through.
AdminUpdateCall(c, target, data) ==
    /\ ~InFlight(c)
    /\ calls' = [calls EXCEPT ![c] =
          after_update_find([Begin("admin_update", "upd_find") EXCEPT
                                !.target = target, !.data = data])]
    /\ UNCHANGED <<now, users, refresh_tokens, ocr_requests, settings, next_id>>

AdminUpdateEmail(c) ==
    /\ calls[c].pc = "upd_email"
    /\ calls' = [calls EXCEPT ![c] =
          IF \E u \in users : u.email \in calls[c].data.email /\ u._id # calls[c].target
          THEN End(calls[c], "400_email")
          ELSE [calls[c] EXCEPT !.pc = "upd_update"]]
    /\ UNCHANGED <<now, users, refresh_tokens, ocr_requests, settings, next_id>>

\* update_one under the unique index on email: DuplicateKeyError when the
\* address written is held by another document.
email_conflict(coll, id, data) ==
    /\ get_user_by_id(coll, id) # {}
    /\ \E u \in coll : u._id # id /\ u.email \in data.email

AdminUpdateWrite(c) ==
    /\ calls[c].pc = "upd_update"
    /\ IF email_conflict(users, calls[c].target, calls[c].data)
       THEN /\ calls' = [calls EXCEPT ![c] = End(calls[c], "500_error")]
            /\ UNCHANGED users
       ELSE /\ users' = update_user(users, calls[c].target, calls[c].data)
            /\ calls' = [calls EXCEPT ![c] = [calls[c] EXCEPT !.pc = "upd_reload"]]
    /\ UNCHANGED <<now, refresh_tokens, ocr_requests, settings, next_id>>

\* updated_user["_id"] on None raises: the request ends in a server error.
AdminUpdateReload(c) ==
    /\ calls[c].pc = "upd_reload"
    /\ calls' = [calls EXCEPT ![c] =
          IF get_user_by_id(users, calls[c].target) = {}
          THEN End(calls[c], "500_error")
          ELSE End(calls[c], "updated")]
    /\ UNCHANGED <<now, users, refresh_tokens, ocr_requests, settings, next_id>>

(***************************************************************************)
(* app/services/user.py: update_user_profile.  Its body carries an email   *)
(* and is_premium; no router of the application calls it.                  *)
(***************************************************************************)
UserUpdate(email, is_premium) == Body(email, {}, is_premium, {})

\* The first store operation: find the account.
ProfileUpdateCall(c, target, data) ==
    /\ ~InFlight(c)
    /\ LET start == [Request(calls[c], "profile_update", "prof_email") EXCEPT
                        !.target = target, !.data = data]
       IN  calls' = [calls EXCEPT ![c] =
              IF get_user_by_id(users, target) = {} THEN End(start, "404_user")
              ELSE IF data.email # {} THEN start
              ELSE IF update_data_empty(data) THEN [start EXCEPT !.pc = "prof_reload"]
              ELSE [start EXCEPT !.pc = "prof_update"]]
    /\ UNCHANGED <<now, users, refresh_tokens, ocr_requests, settings, next_id>>

ProfileUpdateEmail(c) ==
    /\ calls[c].pc = "prof_email"
    /\ calls' = [calls EXCEPT ![c] =
          IF \E u \in users : u.email \in calls[c].data.email /\ u._id # calls[c].target
          THEN End(calls[c], "400_email")
          ELSE [calls[c] EXCEPT !.pc = "prof_update"]]
    /\ UNCHANGED <<now, users, refresh_tokens, ocr_requests, settings, next_id>>

ProfileUpdateWrite(c) ==
    /\ calls[c].pc = "prof_update"
    /\ IF email_conflict(users, calls[c].target, calls[c].data)
       THEN /\ calls' = [calls EXCEPT ![c] = End(calls[c], "500_error")]
            /\ UNCHANGED users
       ELSE /\ users' = update_user(users, calls[c].target, calls[c].data)
            /\ calls' = [calls EXCEPT ![c] = [calls[c] EXCEPT !.pc = "prof_reload"]]
    /\ UNCHANGED <<now, refresh_tokens, ocr_requests, settings, next_id>>

\* user_to_response(None) raises: the request ends in a server error.
ProfileUpdateReload(c) ==
    /\ calls[c].pc = "prof_reload"
    /\ calls' = [calls EXCEPT ![c] =
          IF get_user_by_id(users, calls[c].target) = {}
          THEN End(calls[c], "500_error")
          ELSE End(calls[c], "profile")]
    /\ UNCHANGED <<now, users, refresh_tokens, ocr_requests, settings, next_id>>

AdminDeleteRequest(c, jwt, target) ==
    /\ ~InFlight(c)
    /\ LET current == get_current_admin(users, jwt, now)
           start == [Request(calls[c], "admin_delete", "del_find") EXCEPT
                        !.jwt = jwt, !.target = target, !.user = current.user]
       IN  calls' = [calls EXCEPT ![c] =
              IF current.out # "user" THEN End(start, current.out) ELSE start]
    /\ UNCHANGED <<now, users, refresh_tokens, ocr_requests, settings, next_id>>

\* admin_delete_user, its first store operation: find the account.
after_delete_find(call) ==
    IF get_user_by_id(users, call.target) = {}
    THEN End(call, "404_user")
    ELSE IF call.target = call.user._id
         THEN End(call, "400_self_delete")
         ELSE [call EXCEPT !.pc = "del_user"]

AdminDeleteFind(c) ==
    /\ calls[c].pc = "del_find"
    /\ calls' = [calls EXCEPT ![c] = after_delete_find(calls[c])]
    /\ UNCHANGED <<now, users, refresh_tokens, ocr_requests, settings, next_id>>

\* admin_delete_user called for a request the router let through for `admin`.
AdminDeleteCall(c, target, admin) ==
    /\ ~InFlight(c)
    /\ calls' = [calls EXCEPT ![c] =
          after_delete_find([Begin("admin_delete", "del_find") EXCEPT
                                !.target = target, !.user = admin])]
    /\ UNCHANGED <<now, users, refresh_tokens, ocr_requests, settings, next_id>>

AdminDeleteUser(c) ==
    /\ calls[c].pc = "del_user"
    /\ users' = { u \in users : u._id # calls[c].target }
    /\ calls' = [calls EXCEPT ![c] = [calls[c] EXCEPT !.pc = "del_tokens"]]
    /\ UNCHANGED <<now, refresh_tokens, ocr_requests, settings, next_id>>

AdminDeleteTokens(c) ==
    /\ calls[c].pc = "del_tokens"
    /\ refresh_tokens' = { d \in refresh_tokens : d.user_id # calls[c].target }
    /\ calls' = [calls EXCEPT ![c] = [calls[c] EXCEPT !.pc = "del_ocr"]]
    /\ UNCHANGED <<now, users, ocr_requests, settings, next_id>>

AdminDeleteOcr(c) ==
    /\ calls[c].pc = "del_ocr"
    /\ ocr_requests' =
          [ r \in { x \in DOMAIN ocr_requests : x.user_id # calls[c].target }
              |-> ocr_requests[r] ]
    /\ calls' = [calls EXCEPT ![c] = End(calls[c], "deleted")]
    /\ UNCHANGED <<now, users, refresh_tokens, settings, next_id>>

(***************************************************************************)
(* app/routers/admin.py: the read endpoints and the settings endpoints.    *)
(***************************************************************************)
AdminReads == {"admin_dashboard", "admin_users", "admin_ocr_stats"}

\* GET /admin/dashboard, /admin/users, /admin/ocr-stats: the dependency of the
\* router, then the service reads the collections.
AdminGetRequest(c, jwt, endpoint) ==
    /\ ~InFlight(c)
    /\ LET current == get_current_admin(users, jwt, now)
           start == [Request(calls[c], endpoint, "read") EXCEPT !.jwt = jwt, !.user = current.user]
       IN  calls' = [calls EXCEPT ![c] =
              IF current.out # "user" THEN End(start, current.out) ELSE start]
    /\ UNCHANGED <<now, users, refresh_tokens, ocr_requests, settings, next_id>>

\* get_dashboard_stats, get_users_list, get_ocr_statistics: only reads.
AdminGetRead(c) ==
    /\ calls[c].pc = "read"
    /\ calls' = [calls EXCEPT ![c] = End(calls[c], "statistics")]
    /\ UNCHANGED <<now, users, refresh_tokens, ocr_requests, settings, next_id>>

SystemSettings(request_limit, maintenance_mode) ==
    [request_limit |-> request_limit, default_language |-> "ru+en",
     preprocess_by_default |-> TRUE, admin_email |-> "admin@example.com",
     maintenance_mode |-> maintenance_mode, max_file_size |-> 5]

default_settings == SystemSettings(STANDARD_USER_DAILY_REQUEST_LIMIT, FALSE)

\* GET /admin/settings
AdminSettingsRequest(c, jwt) ==
    /\ ~InFlight(c)
    /\ LET current == get_current_admin(users, jwt, now)
           start == [Request(calls[c], "admin_settings_get", "set_find") EXCEPT
                        !.jwt = jwt, !.user = current.user]
       IN  calls' = [calls EXCEPT ![c] =
              IF current.out # "user" THEN End(start, current.out) ELSE start]
    /\ UNCHANGED <<now, users, refresh_tokens, ocr_requests, settings, next_id>>

\* get_system_settings: find_one({"_id": "system_settings"})
AdminSettingsFind(c) ==
    /\ calls[c].pc = "set_find"
    /\ calls' = [calls EXCEPT ![c] =
          IF settings = NoDoc THEN [calls[c] EXCEPT !.pc = "set_insert"]
          ELSE End(calls[c], "settings")]
    /\ UNCHANGED <<now, users, refresh_tokens, ocr_requests, settings, next_id>>

\* get_system_settings: insert_one of the defaults under the fixed _id; a
\* document already there makes the insert fail on the duplicate key.
AdminSettingsInsert(c) ==
    /\ calls[c].pc = "set_insert"
    /\ IF settings = NoDoc
       THEN /\ settings' = default_settings
            /\ calls' = [calls EXCEPT ![c] = End(calls[c], "settings")]
       ELSE /\ settings' = settings
            /\ calls' = [calls EXCEPT ![c] = End(calls[c], "500_error")]
    /\ UNCHANGED <<now, users, refresh_tokens, ocr_requests, next_id>>

\* PUT /admin/settings
AdminSettingsPutRequest(c, jwt, body) ==
    /\ ~InFlight(c)
    /\ LET current == get_current_admin(users, jwt, now)
           start == [Request(calls[c], "admin_settings_put", "set_upsert") EXCEPT
                        !.jwt = jwt, !.user = current.user, !.data = body]
       IN  calls' = [calls EXCEPT ![c] =
              IF current.out # "user" THEN End(start, current.out) ELSE start]
    /\ UNCHANGED <<now, users, refresh_tokens, ocr_requests, settings, next_id>>

\* update_system_settings: update_one(..., {"$set": settings.dict()}, upsert=True)
AdminSettingsUpsert(c) ==
    /\ calls[c].pc = "set_upsert"
    /\ settings' = calls[c].data
    /\ calls' = [calls EXCEPT ![c] = End(calls[c], "settings")]
    /\ UNCHANGED <<now, users, refresh_tokens, ocr_requests, next_id>>

(***************************************************************************)
(* app/routers/ocr.py and app/services/ocr.py: POST /extract-text.         *)
(***************************************************************************)
ALLOWED_IMAGE_FORMATS == {"image/png", "image/jpeg", "image/jpg"}

\* ocr_requests.count_documents(filter): the documents of `docs` in the bag.
count_documents(coll, docs) ==
    BagCardinality([r \in DOMAIN coll \cap docs |-> coll[r]])

\* {"user_id": user_id, "created_at": {"$gt": day_ago}}
requests_count(coll, user_id, clock) ==
    LET day_ago == clock - Day
    IN  count_documents(coll, { r \in DOMAIN coll :
                                  r.user_id = user_id /\ r.created_at > day_ago })

\* Faulty variant: the limit applied to premium accounts too.
check_limit_for_all(coll, user_id, is_premium, clock) ==
    IF requests_count(coll, user_id, clock) >= STANDARD_USER_DAILY_REQUEST_LIMIT
    THEN "429_limit"
    ELSE "ok"

\* Faulty variant: `>` for `>=`, one request too many.
check_limit_off_by_one(coll, user_id, is_premium, clock) ==
    IF ~is_premium
       /\ requests_count(coll, user_id, clock) > STANDARD_USER_DAILY_REQUEST_LIMIT
    THEN "429_limit"
    ELSE "ok"

\* check_user_request_limit: "ok", or the HTTP error raised.
check_user_request_limit(coll, user_id, is_premium, clock) ==
    IF ~is_premium
       /\ requests_count(coll, user_id, clock) >= STANDARD_USER_DAILY_REQUEST_LIMIT
    THEN "429_limit"
    ELSE "ok"

\* The document save_ocr_request inserts.
ocr_request(user_id, upload, result_text, clock) ==
    [user_id |-> user_id, language |-> upload.language,
     preprocess |-> upload.preprocess, detail |-> upload.detail,
     result_text |-> result_text, created_at |-> clock]

Upload(content_type) ==
    [content_type |-> content_type, language |-> "en+ru", preprocess |-> TRUE,
     detail |-> FALSE]

\* The dependency of the endpoint: get_current_active_user.
ExtractRequest(c, jwt, upload) ==
    /\ ~InFlight(c)
    /\ LET current == get_current_active_user(users, jwt, now)
           start == [Request(calls[c], "extract_text", "ocr_check") EXCEPT
                        !.jwt = jwt, !.user = current.user, !.data = upload]
       IN  calls' = [calls EXCEPT ![c] =
              IF current.out # "user" THEN End(start, current.out) ELSE start]
    /\ UNCHANGED <<now, users, refresh_tokens, ocr_requests, settings, next_id>>

\* Faulty variant: the content type is not looked at before the upload is read.
ExtractCheckLate(c) ==
    /\ calls[c].pc = "ocr_check"
    /\ LET limit == check_user_request_limit(ocr_requests, calls[c].user._id,
                                             calls[c].user.is_premium, now)
       IN  calls' = [calls EXCEPT ![c] =
              IF limit # "ok" THEN End(calls[c], limit)
              ELSE [calls[c] EXCEPT !.pc = "ocr_read"]]
    /\ UNCHANGED <<now, users, refresh_tokens, ocr_requests, settings, next_id>>

\* extract_text: the quota check, then the content type of the upload.
ExtractCheck(c) ==
    /\ calls[c].pc = "ocr_check"
    /\ LET limit == check_user_request_limit(ocr_requests, calls[c].user._id,
                                             calls[c].user.is_premium, now)
       IN  calls' = [calls EXCEPT ![c] =
              IF limit # "ok" THEN End(calls[c], limit)
              ELSE IF calls[c].data.content_type \notin ALLOWED_IMAGE_FORMATS
                   THEN End(calls[c], "400_format")
                   ELSE [calls[c] EXCEPT !.pc = "ocr_read"]]
    /\ UNCHANGED <<now, users, refresh_tokens, ocr_requests, settings, next_id>>

\* extract_text: the upload is read, decoded and recognized; any exception
\* there ends the request in a server error.
ExtractRecognize(c) ==
    /\ calls[c].pc = "ocr_read"
    /\ \E recognized \in BOOLEAN :
          calls' = [calls EXCEPT ![c] =
             IF recognized THEN [calls[c] EXCEPT !.pc = "ocr_save"]
             ELSE End(calls[c], "500_error")]
    /\ UNCHANGED <<now, users, refresh_tokens, ocr_requests, settings, next_id>>

\* Faulty variant: the usage record written twice.
ExtractSaveTwice(c) ==
    /\ calls[c].pc = "ocr_save"
    /\ LET doc == ocr_request(calls[c].user._id, calls[c].data, "text", now)
       IN  ocr_requests' = ocr_requests (+) SetToBag({doc}) (+) SetToBag({doc})
    /\ calls' = [calls EXCEPT ![c] = End(calls[c], "text")]
    /\ UNCHANGED <<now, users, refresh_tokens, settings, next_id>>

\* save_ocr_request: insert_one, then the response.
ExtractSave(c) ==
    /\ calls[c].pc = "ocr_save"
    /\ ocr_requests' = ocr_requests (+)
          SetToBag({ocr_request(calls[c].user._id, calls[c].data, "text", now)})
    /\ calls' = [calls EXCEPT ![c] = End(calls[c], "text")]
    /\ UNCHANGED <<now, users, refresh_tokens, settings, next_id>>

(***************************************************************************)
(* app/routers/ocr.py and app/services/ocr.py: GET /ocr-history.           *)
(***************************************************************************)
Min(a, b) == IF a <= b THEN a ELSE b

\* The documents of `docs`, all created in lo .. hi, latest first, each as
\* often as the collection holds it: the later half of the interval before
\* the earlier one; documents of one instant in any order.
RECURSIVE sort_range(_, _, _, _)
sort_range(coll, docs, lo, hi) ==
    IF docs = {} THEN << >>
    ELSE IF lo = hi
         THEN LET d == CHOOSE x \in docs : TRUE
              IN  [i \in 1..coll[d] |-> d] \o sort_range(coll, docs \ {d}, lo, hi)
         ELSE LET mid == (lo + hi) \div 2
              IN  sort_range(coll, { d \in docs : d.created_at > mid }, mid + 1, hi)
                     \o sort_range(coll, { d \in docs : d.created_at <= mid }, lo, mid)

\* cursor.sort("created_at", -1)
sort_created_desc(coll, docs) ==
    IF docs = {} THEN << >>
    ELSE LET first == CHOOSE d \in docs : \A e \in docs : d.created_at <= e.created_at
             last == CHOOSE d \in docs : \A e \in docs : e.created_at <= d.created_at
         IN  sort_range(coll, docs, first.created_at, last.created_at)

\* cursor.limit(n): 0 is no limit; a negative n is the limit -n, returned in a
\* single batch.
cursor_limit(rows, n) ==
    IF n = 0 THEN rows
    ELSE SubSeq(rows, 1, Min(IF n < 0 THEN -n ELSE n, Len(rows)))

\* get_user_ocr_history: the documents its cursor yields.
get_user_ocr_history(coll, user_id, is_premium, limit) ==
    LET capped == IF limit > HISTORY_CEILING THEN HISTORY_CEILING ELSE limit
        final == IF ~is_premium THEN Min(capped, STANDARD_USER_HISTORY_LIMIT)
                 ELSE capped
    IN  cursor_limit(
            sort_created_desc(coll, { r \in DOMAIN coll : r.user_id = user_id }),
            final)

\* The dependency of the endpoint: get_current_active_user.
HistoryRequest(c, jwt, limit) ==
    /\ ~InFlight(c)
    /\ LET current == get_current_active_user(users, jwt, now)
           start == [Request(calls[c], "ocr_history", "hist_find") EXCEPT
                        !.jwt = jwt, !.user = current.user,
                        !.data = [limit |-> limit]]
       IN  calls' = [calls EXCEPT ![c] =
              IF current.out # "user" THEN End(start, current.out) ELSE start]
    /\ UNCHANGED <<now, users, refresh_tokens, ocr_requests, settings, next_id>>

HistoryFind(c) ==
    /\ calls[c].pc = "hist_find"
    /\ calls' = [calls EXCEPT ![c] =
          End([calls[c] EXCEPT !.page =
                  get_user_ocr_history(ocr_requests, calls[c].user._id,
                                       calls[c].user.is_premium,
                                       calls[c].data.limit)],
              "history")]
    /\ UNCHANGED <<now, users, refresh_tokens, ocr_requests, settings, next_id>>

(***************************************************************************)
(* The session lifecycle: login, rotation, logout, and the admin requests  *)
(* that disable, enable or delete accounts, under every interleaving.      *)
(***************************************************************************)
SessionInstants == Instants(RefreshTTL, MaxOffset)

\* A signed token nobody was issued: signed with another key.
ForgedJwt == [sub |-> "root", exp |-> (RefreshTTL * (MaxPeriods + 1)) \div Second,
              sig |-> "other"]

\* A client presents an access token some call returned, or a forged one.
PresentableJwts ==
    { calls[k].access : k \in { c \in Callers : ~InFlight(c) } } \cup {ForgedJwt}

SessionBodies ==
    { Body({}, {FALSE}, {}, {}), Body({}, {TRUE}, {}, {}) }

Init ==
    /\ now = 0
    /\ users = SeedUsers
    /\ refresh_tokens = {}
    /\ ocr_requests = EmptyBag
    /\ settings = NoDoc
    /\ next_id = FirstFreeId
    /\ calls = [c \in Procs |-> Idle]

Admins == { u \in users : u.is_admin /\ u.is_active }

\* The accounts the admin of this scenario acts on: the others' and a missing one.
SessionTargets == { id \in TargetIds : \A a \in Admins : a._id # id }

SessionLogins ==
    { <<"alice", "alicepw">>, <<"alice", "rootpw">> }

Next ==
    \/ \E c \in Callers, login \in SessionLogins :
          LoginAuthenticate(c, login[1], login[2])
    \/ \E c \in Callers : LoginInsert(c)
    \/ \E c \in Callers, token \in PresentableTokens : RefreshFind(c, token)
    \/ \E c \in Callers : RefreshUser(c)
    \/ \E c \in Callers : RefreshInsert(c)
    \/ \E c \in Callers : RefreshRevoke(c)
    \/ \E c \in Callers, token \in PresentableTokens : Logout(c, token)
    \/ \E target \in SessionTargets, data \in SessionBodies :
          AdminUpdateCall(Admin, target, data)
    \/ AdminUpdateWrite(Admin)
    \/ AdminUpdateReload(Admin)
    \/ \E target \in SessionTargets, admin \in Admins :
          AdminDeleteCall(Admin, target, admin)
    \/ AdminDeleteUser(Admin)
    \/ AdminDeleteTokens(Admin)
    \/ AdminDeleteOcr(Admin)
    \/ Tick(SessionInstants)

Spec == Init /\ [][Next]_vars

(***************************************************************************)
(* Session lifecycle: properties.                                          *)
(***************************************************************************)
Refreshed(c) ==
    calls[c].op = "refresh" /\ calls[c].pc = "done" /\ calls[c].out = "token"

RejectedAtLookup(c) ==
    calls[c].op = "refresh" /\ calls[c].pc = "done"
    /\ calls[c].out = "401_refresh_token"

\* C1: two rotations of one refresh token never both succeed (exactly one
\* wins, the other is rejected), under every interleaving of their store
\* operations.
C1_NeverBothSucceed ==
    \A a, b \in Callers :
        (a # b /\ Refreshed(a) /\ Refreshed(b)) => calls[a].token # calls[b].token

\* C2: a rotation that starts when the credential of its token is already
\* revoked (by a rotation or by logout) is rejected, whatever the clock shows,
\* also before the credential's expiry.
C2_RevokedNeverRotates ==
    \A c \in Callers :
        (calls[c].op = "refresh" /\ "revoked" \in calls[c].seen)
            => RejectedAtLookup(c)

C2_Witness ==
    \E c \in Callers :
        /\ RejectedAtLookup(c)
        /\ calls[c].seen = {"revoked"}
        /\ \E d \in refresh_tokens :
              d.token = calls[c].token /\ d.revoked /\ d.expires_at > now

\* C3: when a rotation of token T returns successfully, T's stored credential
\* is revoked, the returned refresh token differs from T, and the returned
\* token has a stored credential that is not revoked, not expired and owned by
\* the account that owned T.
RotationPost(c) ==
    /\ calls[c].refresh # calls[c].token
    /\ \E old \in refresh_tokens, new \in refresh_tokens :
          /\ old.token = calls[c].token
          /\ old.revoked
          /\ new.token = calls[c].refresh
          /\ ~new.revoked
          /\ new.expires_at > now
          /\ new.user_id = old.user_id

C3_RotationPostcondition ==
    [][ \A c \in Callers :
          (calls[c].pc = "rot_revoke" /\ Refreshed(c)') => RotationPost(c)' ]_vars

PrimaryCause(seen) ==
    IF "absent" \in seen THEN "invalid"
    ELSE IF "expired" \in seen THEN "expired"
    ELSE "revoked"

LogoutReturned(c) == calls[c].op = "logout" /\ calls[c].pc = "done"

C5_LogoutIdempotent ==
    [][ \A c \in Callers :
          (LogoutReturned(c)' /\ calls'[c] # calls[c]) =>
            /\ calls'[c].out = "detail"
            /\ { d.token : d \in refresh_tokens' } = { d.token : d \in refresh_tokens }
            /\ \A d \in refresh_tokens' : d.token = calls'[c].token => d.revoked
            /\ logout_update(refresh_tokens', calls'[c].token) = refresh_tokens'
      ]_vars

C5_Witness ==
    \E a, b \in Callers :
        /\ LogoutReturned(a) /\ calls[a].token = ForgedToken
        /\ LogoutReturned(b)
        /\ \E d \in refresh_tokens :
              d.token = calls[b].token /\ d.revoked /\ d.expires_at <= now

\* C6: the revoked flag is one-way: a credential that is revoked stays
\* revoked in every later state in which it still exists.
C6_RevokedMonotonic ==
    [][ \A d \in refresh_tokens : d.revoked =>
          \A e \in refresh_tokens' : e.token = d.token => e.revoked ]_vars

C6_Witness ==
    /\ \E d \in refresh_tokens : d.revoked
    /\ \E d \in refresh_tokens : ~d.revoked
    /\ calls[Admin].out = "updated"

(***************************************************************************)
(* app/routers/auth.py: GET /users/me, the plain authenticated request.    *)
(***************************************************************************)
ReadUsersMe(c, jwt) ==
    /\ ~InFlight(c)
    /\ LET current == get_current_active_user(users, jwt, now)
           start == [Begin("users_me", "done") EXCEPT !.jwt = jwt]
       IN  calls' = [calls EXCEPT ![c] =
              IF current.out # "user" THEN End(start, current.out)
              ELSE End(start, "profile")]
    /\ UNCHANGED <<now, users, refresh_tokens, ocr_requests, settings, next_id>>

(***************************************************************************)
(* The access gate: tokens are issued by login, presented to /users/me at  *)
(* clock values around their expiry, while the admin disables, enables and *)
(* deletes accounts.                                                       *)
(***************************************************************************)
GateInstants == Instants(AccessTTL, MaxGateOffset)

\* The account whose tokens are presented: the one the admin acts on.
GateLogins == { <<"alice", "alicepw">> }

GateNext ==
    \/ \E c \in Callers, login \in GateLogins :
          LoginAuthenticate(c, login[1], login[2])
    \/ \E c \in Callers : LoginInsert(c)
    \/ \E c \in Callers, jwt \in PresentableJwts : ReadUsersMe(c, jwt)
    \/ \E target \in SessionTargets, data \in SessionBodies :
          AdminUpdateCall(Admin, target, data)
    \/ AdminUpdateWrite(Admin)
    \/ AdminUpdateReload(Admin)
    \/ \E target \in SessionTargets, admin \in Admins :
          AdminDeleteCall(Admin, target, admin)
    \/ AdminDeleteUser(Admin)
    \/ AdminDeleteTokens(Admin)
    \/ AdminDeleteOcr(Admin)
    \/ Tick(GateInstants)

SpecGate == Init /\ [][GateNext]_vars

(***************************************************************************)
(* Access gate: properties.                                                *)
(***************************************************************************)
\* A step in which caller c sends GET /users/me and gets its answer.
MeStep(c) == calls'[c].op = "users_me" /\ calls'[c] # calls[c]

WellSigned(jwt) == jwt.sig = "HS256"

\* The expiry a token carries, as a clock value.
ExpiryOf(jwt) == jwt.exp * Second

ActiveAccount(username) ==
    \E u \in users : u.username = username /\ u.is_active

\* The expiry create_access_token returned with the token: what the client
\* that was issued jwt holds as expires_at.
IssuedWith(jwt) ==
    { calls[d].expires_at : d \in { k \in Callers : calls[k].out = "token"
                                                    /\ calls[k].access = jwt } }

\* C7: for an existing active account, an access token issued by
\* create_access_token with expiry E authenticates at every clock value
\* strictly before E and is rejected (expired: the 401 of invalid credentials)
\* at every clock value at or after E.
C7_ValidUntilExpiry ==
    [][ \A c \in Callers :
          (MeStep(c) /\ ActiveAccount(calls'[c].jwt.sub))
            => \A E \in IssuedWith(calls'[c].jwt) :
                  IF now < E THEN calls'[c].out = "profile"
                  ELSE calls'[c].out = "401_credentials" ]_vars

\* C8: the checks come in the order signature, expiry, subject, active flag:
\* a well-signed unexpired token of no account is rejected as invalid
\* credentials (the `unknown` case), one of a disabled account is rejected as
\* disabled, and the account is returned only when it exists and is active.
C8_CheckOrder ==
    [][ \A c \in Callers : MeStep(c) =>
          LET jwt == calls'[c].jwt
              out == calls'[c].out
              fresh == WellSigned(jwt) /\ now < ExpiryOf(jwt)
              found == get_user_by_username(users, jwt.sub)
          IN  /\ ~fresh => out = "401_credentials"
              /\ (fresh /\ found = {}) => out = "401_credentials"
              /\ (fresh /\ \E u \in found : ~u.is_active) => out = "401_disabled"
              /\ out = "profile" => (fresh /\ \E u \in found : u.is_active) ]_vars

C8_Witness ==
    \E a, b \in Callers :
        /\ calls[a].op = "users_me" /\ calls[a].out = "401_disabled"
        /\ calls[b].op = "users_me" /\ calls[b].out = "401_credentials"
        /\ WellSigned(calls[b].jwt) /\ now < ExpiryOf(calls[b].jwt)
        /\ get_user_by_username(users, calls[b].jwt.sub) = {}

(***************************************************************************)
(* The /admin router: clients log in and send every /admin request with    *)
(* the tokens they hold, while accounts are promoted, demoted, disabled    *)
(* and deleted through the same router.                                    *)
(***************************************************************************)
\* The clock of this scenario: the instants at which held tokens expire.
AdminInstants == Instants(AccessTTL, MaxOffset) \ {AccessTTL - 1}

AdminBodies ==
    { Body({"alice@x"}, {}, {}, {TRUE}), Body({}, {FALSE}, {}, {FALSE}) }

AdminSettingsBodies == { SystemSettings(STANDARD_USER_DAILY_REQUEST_LIMIT, TRUE) }

\* Each client is one person's: it logs in once, keeps the token it was
\* given and sends what it holds (before login, no token) with every request.
AdminLogins == [c \in Callers |->
                  IF c = "c1" THEN <<"alice", "alicepw">> ELSE <<"root", "rootpw">>]

HeldJwts(c) == {calls[c].access}

AdminNext ==
    \/ \E c \in Callers :
          /\ calls[c].op = "idle"
          /\ LoginAuthenticate(c, AdminLogins[c][1], AdminLogins[c][2])
    \/ \E c \in Callers : LoginInsert(c)
    \/ \E c \in Callers : \E jwt \in HeldJwts(c), endpoint \in AdminReads :
          AdminGetRequest(c, jwt, endpoint)
    \/ \E c \in Callers : AdminGetRead(c)
    \/ \E c \in Callers : \E jwt \in HeldJwts(c) : AdminSettingsRequest(c, jwt)
    \/ \E c \in Callers : AdminSettingsFind(c)
    \/ \E c \in Callers : AdminSettingsInsert(c)
    \/ \E c \in Callers : \E jwt \in HeldJwts(c), body \in AdminSettingsBodies :
          AdminSettingsPutRequest(c, jwt, body)
    \/ \E c \in Callers : AdminSettingsUpsert(c)
    \/ \E c \in Callers : \E jwt \in HeldJwts(c), target \in TargetIds,
          data \in AdminBodies : AdminUpdateRequest(c, jwt, str_id(target), data)
    \/ \E c \in Callers : AdminUpdateFind(c)
    \/ \E c \in Callers : AdminUpdateEmail(c)
    \/ \E c \in Callers : AdminUpdateWrite(c)
    \/ \E c \in Callers : AdminUpdateReload(c)
    \/ \E c \in Callers : \E jwt \in HeldJwts(c), target \in TargetIds :
          AdminDeleteRequest(c, jwt, target)
    \/ \E c \in Callers : AdminDeleteFind(c)
    \/ \E c \in Callers : AdminDeleteUser(c)
    \/ \E c \in Callers : AdminDeleteTokens(c)
    \/ \E c \in Callers : AdminDeleteOcr(c)
    \/ Tick(AdminInstants)

SpecAdmin == Init /\ [][AdminNext]_vars

AdminOps ==
    AdminReads \cup {"admin_update", "admin_delete", "admin_settings_get",
                     "admin_settings_put"}

Unexpired(jwt) == WellSigned(jwt) /\ now < ExpiryOf(jwt)

\* The token authenticates, now, to an existing active account.
Authenticates(jwt) == Unexpired(jwt) /\ ActiveAccount(jwt.sub)

\* ... and that account has is_admin = true.
AuthenticatesAdmin(jwt) ==
    /\ Unexpired(jwt)
    /\ \E u \in users : u.username = jwt.sub /\ u.is_active /\ u.is_admin

\* The step in which an /admin request of c arrives and the router checks it.
AdminCheckStep(c) ==
    ~InFlight(c) /\ calls'[c] # calls[c] /\ calls'[c].op \in AdminOps

\* A step of an /admin handler of c behind the check: a read or a write.
AdminHandlerStep(c) ==
    InFlight(c) /\ calls'[c] # calls[c] /\ calls[c].op \in AdminOps

Store == <<users, refresh_tokens, ocr_requests, settings>>

\* C9: an /admin request gets behind the router's check only with a token
\* that at the check authenticates to an existing active account with
\* is_admin = true; any other request ends at the check with the store
\* unchanged, with `forbidden` when the token authenticates to a non-admin;
\* and only handlers behind the check read or change accounts and settings.
C9_AdminOnly ==
    [][ /\ \A c \in Callers :
             /\ AdminCheckStep(c) =>
                  /\ Store' = Store
                  /\ IF AuthenticatesAdmin(calls'[c].jwt)
                     THEN calls'[c].pc # "done" \/ calls'[c].out = "400_self_demotion"
                     ELSE /\ calls'[c].pc = "done"
                          /\ calls'[c].out \in {"401_credentials", "401_disabled",
                                                "403_forbidden"}
                          /\ Authenticates(calls'[c].jwt)
                               => calls'[c].out = "403_forbidden"
             /\ AdminHandlerStep(c) =>
                  /\ calls[c].user.username = calls[c].jwt.sub
                  /\ calls[c].user.is_admin /\ calls[c].user.is_active
        /\ (users' # users \/ settings' # settings) =>
              \E c \in Callers : AdminHandlerStep(c) ]_vars

C9_Witness ==
    \E a, b \in Callers :
        /\ calls[a].out = "403_forbidden" /\ calls[a].op = "admin_delete"
        /\ calls[a].jwt.sub = "alice"
        /\ calls[b].out = "settings" /\ calls[b].op = "admin_settings_put"
        /\ settings # NoDoc
        /\ \E u \in users : u.username = "alice" /\ ~u.is_admin /\ u.is_active

(***************************************************************************)
(* The quota, requests one at a time: the one client of a standard account *)
(* logs in whenever it holds no valid token and sends its uploads, each    *)
(* after the answer to the one before, while the clock passes the day the  *)
(* limit counts over.                                                      *)
(***************************************************************************)
QuotaInstants == Instants(Day, MaxGateOffset)

Uploads == { Upload("image/png"), Upload("text/plain") }

\* The clients that send uploads in this scenario.
Uploaders == {"c1"}

\* Calls that will still write a usage record.
WillSave ==
    { c \in Callers : calls[c].pc \in {"ocr_check", "ocr_read", "ocr_save"} }

RecordBudget == BagCardinality(ocr_requests) + Cardinality(WillSave) < MaxRecords

QuotaNext ==
    \/ \E c \in Uploaders :
          /\ jwt_decode(calls[c].access, now) # "payload"
          /\ LoginAuthenticate(c, AdminLogins[c][1], AdminLogins[c][2])
    \/ \E c \in Uploaders : LoginInsert(c)
    \/ \E c \in Uploaders : \E jwt \in HeldJwts(c), upload \in Uploads :
          RecordBudget /\ ExtractRequest(c, jwt, upload)
    \/ \E c \in Uploaders : ExtractCheck(c)
    \/ \E c \in Uploaders : ExtractRecognize(c)
    \/ \E c \in Uploaders : ExtractSave(c)
    \/ Tick(QuotaInstants)

SpecQuota == Init /\ [][QuotaNext]_vars

\* The usage records of an account in the trailing day that ends at `clock`.
InWindow(id, clock) ==
    count_documents(ocr_requests,
        { r \in DOMAIN ocr_requests :
            r.user_id = id /\ r.created_at > clock - Day /\ r.created_at <= clock })

\* The step in which the quota check of c's request is taken.
QuotaCheckStep(c) == calls[c].pc = "ocr_check" /\ calls'[c] # calls[c]

StandardIds == { u._id : u \in { a \in users : ~a.is_premium } }

\* C10: for a standard account whose requests come one at a time, the quota
\* check rejects a request, with `too many requests`, exactly when the account
\* has 10 or more usage records younger than 24 hours; so the 10th request of a
\* window passes, the 11th does not, a request passes again once the earliest
\* of the records is 24 hours old, and no trailing 24-hour window ever holds
\* more than 10 records of the account.
C10_SequentialQuota ==
    /\ [][ \A c \in Callers :
             (QuotaCheckStep(c) /\ ~calls[c].user.is_premium) =>
                (calls'[c].out = "429_limit"
                   <=> InWindow(calls[c].user._id, now)
                          >= STANDARD_USER_DAILY_REQUEST_LIMIT) ]_vars
    /\ [](\A id \in StandardIds : \A t \in QuotaInstants :
             InWindow(id, t) <= STANDARD_USER_DAILY_REQUEST_LIMIT)

\* Ten records in a day, the 11th request rejected, a 12th admitted and
\* recorded once the earliest records were a day old, the next rejected again.
C10_Witness ==
    \E c \in Callers, u \in users :
        /\ calls[c].op = "extract_text" /\ calls[c].out = "429_limit"
        /\ calls[c].jwt.sub = u.username /\ ~u.is_premium
        /\ InWindow(u._id, now) = STANDARD_USER_DAILY_REQUEST_LIMIT
        /\ \E t \in QuotaInstants :
              t < now /\ InWindow(u._id, t) = STANDARD_USER_DAILY_REQUEST_LIMIT
        /\ count_documents(ocr_requests,
                           { r \in DOMAIN ocr_requests : r.user_id = u._id })
              > STANDARD_USER_DAILY_REQUEST_LIMIT

(***************************************************************************)
(* The quota of a premium account: the one client of a premium account     *)
(* sends its uploads one after the other.                                  *)
(***************************************************************************)
PremiumUploaders == {"c2"}

PremiumNext ==
    \/ \E c \in PremiumUploaders :
          /\ jwt_decode(calls[c].access, now) # "payload"
          /\ LoginAuthenticate(c, AdminLogins[c][1], AdminLogins[c][2])
    \/ \E c \in PremiumUploaders : LoginInsert(c)
    \/ \E c \in PremiumUploaders : \E jwt \in HeldJwts(c), upload \in Uploads :
          RecordBudget /\ ExtractRequest(c, jwt, upload)
    \/ \E c \in PremiumUploaders : ExtractCheck(c)
    \/ \E c \in PremiumUploaders : ExtractRecognize(c)
    \/ \E c \in PremiumUploaders : ExtractSave(c)
    \/ Tick(QuotaInstants)

SpecPremium == Init /\ [][PremiumNext]_vars

\* C11: for an account with is_premium = true the quota check never rejects,
\* whatever the number of usage records the account has in the last 24 hours.
C11_PremiumNeverRejected ==
    [][ \A c \in Callers :
          (QuotaCheckStep(c) /\ calls[c].user.is_premium)
             => calls'[c].out # "429_limit" ]_vars

\* A premium account with more than the daily limit of records in the last
\* day, and one more request of it past the quota check.
C11_Witness ==
    \E c \in Callers, u \in users :
        /\ calls[c].op = "extract_text" /\ calls[c].pc = "ocr_read"
        /\ calls[c].user = u /\ u.is_premium
        /\ InWindow(u._id, now) > STANDARD_USER_DAILY_REQUEST_LIMIT

(***************************************************************************)
(* The quota under concurrent requests: two clients of the same standard   *)
(* account send uploads at the same time.                                  *)
(***************************************************************************)
ConcurrentUploaders == Callers

ConcurrentInstants == Instants(Day, MaxOffset)

ConcurrentNext ==
    \/ \E c \in ConcurrentUploaders :
          /\ jwt_decode(calls[c].access, now) # "payload"
          /\ LoginAuthenticate(c, "alice", "alicepw")
    \/ \E c \in ConcurrentUploaders : LoginInsert(c)
    \/ \E c \in ConcurrentUploaders : \E jwt \in HeldJwts(c), upload \in Uploads :
          RecordBudget /\ ExtractRequest(c, jwt, upload)
    \/ \E c \in ConcurrentUploaders : ExtractCheck(c)
    \/ \E c \in ConcurrentUploaders : ExtractRecognize(c)
    \/ \E c \in ConcurrentUploaders : ExtractSave(c)
    \/ Tick(ConcurrentInstants)

SpecConcurrent == Init /\ [][ConcurrentNext]_vars

\* C12: with k requests of one standard account in flight at a time, a
\* trailing 24-hour window can hold more records of the account than the
\* daily limit, but never more than limit - 1 + k.
C12_OvershootBounded ==
    \A id \in StandardIds : \A t \in ConcurrentInstants :
        InWindow(id, t) <= STANDARD_USER_DAILY_REQUEST_LIMIT - 1
                             + Cardinality(ConcurrentUploaders)

\* The limit exceeded: limit + 1 records of the account within a day.
C12_Witness ==
    \E id \in StandardIds :
        InWindow(id, now) = STANDARD_USER_DAILY_REQUEST_LIMIT + 1

\* C13: a request over the quota ends with `too many requests`, one with an
\* unsupported content type ends with the distinct `bad request`; neither
\* reaches the recognition engine and neither writes a usage record.
C13_RejectedBeforeEngine ==
    [][ /\ \A c \in Callers : QuotaCheckStep(c) =>
             LET over == /\ ~calls[c].user.is_premium
                         /\ InWindow(calls[c].user._id, now)
                               >= STANDARD_USER_DAILY_REQUEST_LIMIT
                 unsupported == calls[c].data.content_type \notin ALLOWED_IMAGE_FORMATS
             IN  /\ over => calls'[c].pc = "done" /\ calls'[c].out = "429_limit"
                 /\ (~over /\ unsupported)
                      => calls'[c].pc = "done" /\ calls'[c].out = "400_format"
                 /\ calls'[c].pc # "done"
                      => ~over /\ ~unsupported /\ calls'[c].pc = "ocr_read"
                 /\ ocr_requests' = ocr_requests
        /\ \A c \in Callers :
             (calls[c].pc = "done" /\ calls[c].out \in {"429_limit", "400_format"})
                => (calls'[c] # calls[c] => calls'[c].pc \notin {"ocr_read", "ocr_save"})
        /\ ocr_requests' # ocr_requests => \E c \in Callers : calls[c].pc = "ocr_save"
      ]_vars

C13_Witness ==
    \E a, b \in Callers :
        /\ calls[a].op = "extract_text" /\ calls[a].out = "429_limit"
        /\ calls[b].op = "extract_text" /\ calls[b].out = "400_format"
        /\ \E id \in StandardIds :
              InWindow(id, now) >= STANDARD_USER_DAILY_REQUEST_LIMIT

\* The step in which c's extract_text request, past the access gate, ends.
ExtractEndStep(c) ==
    calls[c].op = "extract_text" /\ InFlight(c) /\ calls'[c].pc = "done"

\* C14 as claimed: every extract_text call that passes the quota check
\* creates exactly one usage record.
C14_OnePerAdmitted ==
    [][ \A c \in Callers :
          (ExtractEndStep(c) /\ calls'[c].out # "429_limit")
             => BagCardinality(ocr_requests') = BagCardinality(ocr_requests) + 1
      ]_vars

\* C14 (as amended): an extract_text call that returns the recognized text
\* has created exactly one usage record, of the calling account and with the
\* time of the save; a call that ends in any other way (over the quota,
\* unsupported content type, failure while reading or recognizing) has
\* created none; no call creates more than one.
C14_OnePerRecognized ==
    [][ /\ \A c \in Callers : ExtractEndStep(c) =>
             IF calls'[c].out = "text"
             THEN \E r \in DOMAIN ocr_requests' :
                     /\ r.user_id = calls[c].user._id
                     /\ r.created_at = now
                     /\ ocr_requests' = ocr_requests (+) SetToBag({r})
             ELSE ocr_requests' = ocr_requests
        /\ ocr_requests' # ocr_requests =>
             \E c \in Callers : ExtractEndStep(c) /\ calls'[c].out = "text"
      ]_vars

C14_Witness ==
    \E a, b \in Callers :
        /\ calls[a].op = "extract_text" /\ calls[a].out = "text"
        /\ calls[b].op = "extract_text" /\ calls[b].out = "500_error"
        /\ BagCardinality(ocr_requests) = 1

(***************************************************************************)
(* The history: stores that hold none, a few more than the standard page,  *)
(* or more than the ceiling of records per account, read with page sizes   *)
(* around every threshold.                                                 *)
(***************************************************************************)
HistorySizes == {0, STANDARD_USER_HISTORY_LIMIT + 1, MaxHistory}

HistoryLimits ==
    { -MaxHistory, -(STANDARD_USER_HISTORY_LIMIT + 1), -1, 0, 1,
      STANDARD_USER_HISTORY_LIMIT, STANDARD_USER_HISTORY_LIMIT + 1,
      HISTORY_CEILING, HISTORY_CEILING + 1 }

\* n usage records for every account, written at the clock values 1 .. n.
HistoryStore(n) ==
    SetToBag({ ocr_request(u._id, Upload("image/png"), "text", t) :
                 u \in SeedUsers, t \in 1..n })

HistoryInit ==
    /\ now = MaxHistory
    /\ users = SeedUsers
    /\ refresh_tokens = {}
    /\ \E n \in HistorySizes : ocr_requests = HistoryStore(n)
    /\ settings = NoDoc
    /\ next_id = FirstFreeId
    /\ calls = [c \in Procs |-> Idle]

HistoryNext ==
    \/ \E c \in Callers :
          /\ jwt_decode(calls[c].access, now) # "payload"
          /\ LoginAuthenticate(c, AdminLogins[c][1], AdminLogins[c][2])
    \/ \E c \in Callers : LoginInsert(c)
    \/ \E c \in Callers : \E jwt \in HeldJwts(c), limit \in HistoryLimits :
          HistoryRequest(c, jwt, limit)
    \/ \E c \in Callers : HistoryFind(c)

SpecHistory == HistoryInit /\ [][HistoryNext]_vars

HistoryCap(is_premium) ==
    IF is_premium THEN HISTORY_CEILING ELSE STANDARD_USER_HISTORY_LIMIT

\* The step in which the history of c's request is read.
HistoryStep(c) == calls[c].pc = "hist_find" /\ calls'[c] # calls[c]

\* C15: for every requested limit the history holds at most 30 records for a
\* standard account and at most 100 for a premium one, and they are the
\* account's own most recent records, latest first.
C15_HistoryCapped ==
    [][ \A c \in Callers : HistoryStep(c) =>
          LET page == calls'[c].page
              own == { r \in DOMAIN ocr_requests : r.user_id = calls[c].user._id }
          IN  /\ Len(page) <= HistoryCap(calls[c].user.is_premium)
              /\ \A i \in 1..Len(page) : page[i] \in own
              /\ \A i \in 1..(Len(page) - 1) :
                    page[i].created_at >= page[i + 1].created_at
              /\ \A r \in own :
                    (\A i \in 1..Len(page) : page[i] # r)
                       => \A i \in 1..Len(page) : page[i].created_at >= r.created_at
      ]_vars

(***************************************************************************)
(* Deletion: alice logs in, rotates, reads her profile and uploads; the    *)
(* admin deletes her account once; afterwards her handle is registered     *)
(* again.  Only alice logs in, and only before the deletion starts, so     *)
(* every token in this scenario was issued to the account that is deleted. *)
(***************************************************************************)
DeleteTargets == { u._id : u \in { x \in SeedUsers : ~x.is_admin } }

DeleteLogin == <<"alice", "alicepw">>

DeleteRegistrations == { UserCreate("alice", "new@x", "newpw") }

\* The access tokens the clients hold or have presented.
DeletePresentable ==
    ({ calls[c].access : c \in Callers } \cup { calls[c].jwt : c \in Callers })
        \ {NoJwt}

DeleteNext ==
    \/ \E c \in Callers :
          /\ calls[c].op = "idle" /\ calls[Admin].op = "idle"
          /\ LoginAuthenticate(c, DeleteLogin[1], DeleteLogin[2])
    \/ \E c \in Callers : LoginInsert(c)
    \/ \E c \in Callers, token \in PresentableTokens : RefreshFind(c, token)
    \/ \E c \in Callers : RefreshUser(c)
    \/ \E c \in Callers : RefreshInsert(c)
    \/ \E c \in Callers : RefreshRevoke(c)
    \/ \E c \in Callers, jwt \in DeletePresentable : ReadUsersMe(c, jwt)
    \/ \E c \in Uploaders : \E jwt \in HeldJwts(c), upload \in {Upload("image/png")} :
          /\ BagCardinality(ocr_requests) + Cardinality(WillSave) < 1
          /\ ExtractRequest(c, jwt, upload)
    \/ \E c \in Uploaders : ExtractCheck(c)
    \/ \E c \in Uploaders : ExtractRecognize(c)
    \/ \E c \in Uploaders : ExtractSave(c)
    \/ \E target \in DeleteTargets, admin \in Admins :
          calls[Admin].op = "idle" /\ AdminDeleteCall(Admin, target, admin)
    \/ AdminDeleteUser(Admin)
    \/ AdminDeleteTokens(Admin)
    \/ AdminDeleteOcr(Admin)
    \/ \E c \in Callers, user \in DeleteRegistrations : RegisterFindEmail(c, user)
    \/ \E c \in Callers : RegisterFindUsername(c)
    \/ \E c \in Callers : RegisterInsert(c)

SpecDelete == Init /\ [][DeleteNext]_vars

\* admin_delete_user has completed.
Deleted == calls[Admin].op = "admin_delete" /\ calls[Admin].out = "deleted"

RotationEnds(c) ==
    calls'[c] # calls[c] /\ calls'[c].op = "refresh" /\ calls'[c].pc = "done"

\* C16: once admin_delete_user of an account has completed, the store holds no
\* refresh credential and no usage record of the account, and from then on
\* (also after new accounts are registered) no authentication with an access
\* token issued to it and no rotation with a refresh token issued to it
\* succeeds.
C16_DeletedStaysOut ==
    [][ Deleted =>
          /\ \A id \in DeleteTargets :
                /\ \A d \in refresh_tokens' : d.user_id # id
                /\ \A r \in DOMAIN ocr_requests' : r.user_id # id
          /\ \A c \in Callers : MeStep(c) => calls'[c].out # "profile"
          /\ \A c \in Callers : RotationEnds(c) => calls'[c].out # "token"
      ]_vars

\* C16, its sequential case: no request is in flight while the account is
\* deleted, the handle is registered again, and the old access token is
\* presented.
C16_SequentialReuse ==
    [][ \A c \in Callers :
          (/\ MeStep(c) /\ Deleted
           /\ \A d \in refresh_tokens : d.user_id \notin DeleteTargets
           /\ ocr_requests = EmptyBag)
             => calls'[c].out # "profile" ]_vars

(***************************************************************************)
(* Registration: two clients register handles and addresses that are held, *)
(* free, or requested by the other client at the same time.                *)
(***************************************************************************)
Registrations ==
    { UserCreate("alice", "new@x", "pw"), UserCreate("bob", "alice@x", "pw"),
      UserCreate("bob", "bob@x", "pw"), UserCreate("carol", "bob@x", "pw"),
      UserCreate("bob", "carol@x", "pw") }

RegisterNext ==
    \/ \E c \in Callers, user \in Registrations : RegisterFindEmail(c, user)
    \/ \E c \in Callers : RegisterFindUsername(c)
    \/ \E c \in Callers : RegisterInsert(c)

SpecRegister == Init /\ [][RegisterNext]_vars

RegisterEnds(c) ==
    calls'[c] # calls[c] /\ calls'[c].op = "register" /\ calls'[c].pc = "done"

ConflictError == {"400_email", "400_username"}

\* C17: a registration either creates its account or is rejected with
\* ConflictError, and a rejected one leaves the accounts unchanged; it is
\* rejected whenever the handle or the address is held when it ends, so of
\* two concurrent registrations of one handle or address one is created and
\* the other receives ConflictError.
C17_DuplicateIsConflict ==
    [][ \A c \in Callers : RegisterEnds(c) =>
          /\ calls'[c].out \in ConflictError \cup {"201_created"}
          /\ (InFlight(c) /\ duplicate_key(users, calls[c].data))
                => calls'[c].out \in ConflictError
          /\ calls'[c].out \in ConflictError => users' = users
      ]_vars

(***************************************************************************)
(* Self-demotion: the admin root and alice, whom root may promote, send    *)
(* updates of their own and of each other's account, with and without      *)
(* is_admin = false, the _id written in either case.                       *)
(***************************************************************************)
DemoteBodies ==
    { Body({"r@x"}, {FALSE}, {FALSE}, {FALSE}), Body({}, {}, {}, {FALSE}),
      Body({}, {}, {}, {TRUE}) }

DemoteNext ==
    \/ \E c \in Callers :
          /\ calls[c].op = "idle"
          /\ LoginAuthenticate(c, AdminLogins[c][1], AdminLogins[c][2])
    \/ \E c \in Callers : LoginInsert(c)
    \/ \E c \in Callers : \E jwt \in HeldJwts(c),
          user_id \in PathIds({ u._id : u \in users }), data \in DemoteBodies :
             AdminUpdateRequest(c, jwt, user_id, data)
    \/ \E c \in Callers : AdminUpdateFind(c)
    \/ \E c \in Callers : AdminUpdateEmail(c)
    \/ \E c \in Callers : AdminUpdateWrite(c)
    \/ \E c \in Callers : AdminUpdateReload(c)

SpecDemote == Init /\ [][DemoteNext]_vars

\* C18: an update of the caller's own account with is_admin = false never gets
\* behind the endpoint's check, so admin_update_user never runs for it and no
\* field of the account is changed by it.
C18_SelfDemotionRejected ==
    \A c \in Callers :
        (calls[c].op = "admin_update" /\ InFlight(c))
            => ~(calls[c].target = calls[c].user._id
                   /\ calls[c].data.is_admin = {FALSE})

(***************************************************************************)
(* Rejections: c1 logs in with a handle no account has or as alice, c2     *)
(* with alice's handle and root's secret or as root; both rotate, read     *)
(* their profile and ask for the admin's list, with the tokens they were   *)
(* given or forged ones, while the admin disables, enables and deletes     *)
(* alice and the clock passes the lifetimes of the tokens.                 *)
(***************************************************************************)
\* The clock once passes the lifetime of every token issued before.
RejectInstants == {RefreshTTL}

\* The access tokens a client was given or has presented.
OwnJwts(c) == {calls[c].access, calls[c].jwt} \ {NoJwt}

LoginAttempts == [c \in Callers |->
    IF c = "c1" THEN { <<"nobody", "alicepw">>, <<"alice", "alicepw">> }
    ELSE { <<"alice", "rootpw">>, <<"root", "rootpw">> }]

RejectNext ==
    \/ \E c \in Callers : \E attempt \in LoginAttempts[c] :
          LoginAuthenticate(c, attempt[1], attempt[2])
    \/ \E c \in Callers : LoginInsert(c)
    \/ \E c \in Callers, token \in PresentableTokens : RefreshFind(c, token)
    \/ \E c \in Callers : RefreshUser(c)
    \/ \E c \in Callers : RefreshInsert(c)
    \/ \E c \in Callers : RefreshRevoke(c)
    \/ \E c \in Callers : \E jwt \in OwnJwts(c) \cup {ForgedJwt} :
          ReadUsersMe(c, jwt)
    \/ \E c \in Callers : \E jwt \in OwnJwts(c) :
          AdminGetRequest(c, jwt, "admin_users")
    \/ \E c \in Callers : AdminGetRead(c)
    \/ \E target \in SessionTargets, data \in SessionBodies :
          AdminUpdateCall(Admin, target, data)
    \/ AdminUpdateWrite(Admin)
    \/ AdminUpdateReload(Admin)
    \/ \E target \in SessionTargets, admin \in Admins :
          AdminDeleteCall(Admin, target, admin)
    \/ AdminDeleteUser(Admin)
    \/ AdminDeleteTokens(Admin)
    \/ AdminDeleteOcr(Admin)
    \/ Tick(RejectInstants)

SpecReject == Init /\ [][RejectNext]_vars

UnknownHandle(username) == get_user_by_username(users, username) = {}

WrongSecret(username, password) ==
    /\ ~UnknownHandle(username)
    /\ authenticate_user(users, username, password) = {}

\* C19: a login with a handle no account has and a login with the handle of an
\* account and a wrong secret end the same way: the same error, the same
\* answer in every part, and no change of the store.
C19_LoginFailuresAlike ==
    [][ \A c \in Callers : \A attempt \in LoginAttempts[c] :
          (/\ LoginAuthenticate(c, attempt[1], attempt[2])
           /\ UnknownHandle(attempt[1]) \/ WrongSecret(attempt[1], attempt[2]))
             => /\ calls'[c] = End(Begin("login", "done"), "401_login")
                /\ Store' = Store
      ]_vars

C19_Witness ==
    /\ calls["c1"].op = "login" /\ calls["c1"].out = "401_login"
    /\ calls["c2"].op = "login" /\ calls["c2"].out = "401_login"
    /\ calls["c1"] = calls["c2"]
    /\ UnknownHandle("nobody")
    /\ WrongSecret("alice", "rootpw")

AuthError ==
    {"401_login", "401_refresh_token", "401_user", "401_credentials",
     "401_disabled", "403_forbidden"}

\* A step of a call of c.
CallStep(c) == calls'[c] # calls[c]

\* C20: a login, a rotation or an authentication that ends in an AuthError
\* has left the store as it was: the step that ends it changes nothing, and a
\* call that has changed the store (inserted or revoked a credential) never
\* ends in an AuthError.
C20_RejectedChangesNothing ==
    [][ \A c \in Callers :
          /\ (CallStep(c) /\ calls'[c].pc = "done" /\ calls'[c].out \in AuthError)
                => Store' = Store
          /\ (CallStep(c) /\ Store' # Store)
                => (calls'[c].pc = "rot_revoke" \/ calls'[c].out = "token")
          /\ (CallStep(c) /\ calls[c].pc = "rot_revoke")
                => calls'[c].out = "token"
      ]_vars

C20_Witness ==
    \E a, b \in Callers :
        /\ calls[a].op = "refresh" /\ calls[a].out = "401_user"
        /\ calls[b].op = "users_me" /\ calls[b].out = "401_disabled"
        /\ \E d \in refresh_tokens : d.token = calls[a].token /\ ~d.revoked

(***************************************************************************)
(* Credentials, under the session lifecycle (Spec).                        *)
(***************************************************************************)
Valid(d, clock) == ~d.revoked /\ d.expires_at > clock

\* The step in which the login of c inserts its credential and returns.
LoginSucceeds(c) == calls[c].pc = "login_insert" /\ CallStep(c)

\* C21: a successful login adds exactly one credential, new, not revoked and
\* of the account that logged in, and changes no credential that exists; so
\* an account holds several valid credentials at once, each usable for a
\* rotation of its own.
C21_LoginAddsOne ==
    [][ \A c \in Callers : LoginSucceeds(c) =>
          /\ calls'[c].out = "token"
          /\ refresh_tokens \subseteq refresh_tokens'
          /\ \E d \in refresh_tokens' \ refresh_tokens :
                /\ refresh_tokens' = refresh_tokens \cup {d}
                /\ d.token = calls'[c].refresh
                /\ d.user_id = calls[c].user._id
                /\ ~d.revoked
                /\ \A e \in refresh_tokens : e.token # d.token
      ]_vars

\* Two logins of one account, both credentials valid at once; then one is
\* rotated and the other is valid still.
C21_Witness ==
    \E a, b \in Callers : \E d \in refresh_tokens :
        /\ a # b
        /\ Refreshed(a)
        /\ calls[b].op = "login" /\ calls[b].out = "token"
        /\ d.token = calls[b].refresh /\ Valid(d, now)
        /\ \E e \in refresh_tokens :
              /\ e.token = calls[a].token /\ e.revoked
              /\ e.user_id = d.user_id /\ e.created_at <= d.created_at
              /\ \E f \in refresh_tokens :
                    f.token = calls[a].refresh /\ f.created_at >= d.created_at

\* The step that inserts credential d.
Issues(d) == d \in refresh_tokens' /\ \A e \in refresh_tokens : e._id # d._id

UniqueRegistrations ==
    { UserCreate("bob", "bob@x", "pw"), UserCreate("bob", "carol@x", "pw"),
      UserCreate("carol", "bob@x", "pw") }

UniqueUpdates == { UserUpdate({"bob@x"}, {}) }

UniqueBodies == { Body({"carol@x"}, {}, {}, {}) }

\* The accounts of the clients: those an update names.
UniqueTargets == { u._id : u \in { x \in users : ~x.is_admin } }

UniqueNext ==
    \/ \E c \in Callers, user \in UniqueRegistrations : RegisterFindEmail(c, user)
    \/ \E c \in Callers : RegisterFindUsername(c)
    \/ \E c \in Callers : RegisterInsert(c)
    \/ \E c \in Callers, target \in UniqueTargets, data \in UniqueUpdates :
          ProfileUpdateCall(c, target, data)
    \/ \E c \in Callers : ProfileUpdateEmail(c)
    \/ \E c \in Callers : ProfileUpdateWrite(c)
    \/ \E c \in Callers : ProfileUpdateReload(c)
    \/ \E target \in UniqueTargets, data \in UniqueBodies :
          AdminUpdateCall(Admin, target, data)
    \/ AdminUpdateEmail(Admin)
    \/ AdminUpdateWrite(Admin)
    \/ AdminUpdateReload(Admin)

SpecUnique == Init /\ [][UniqueNext]_vars

\* C23: no two accounts share a handle and no two accounts share a contact
\* address, under every interleaving of the store operations of
\* registrations, profile updates and admin updates.
C23_UniqueIdentity ==
    \A u, v \in users :
        u._id # v._id => (u.username # v.username /\ u.email # v.email)

\* The indexes did the work: a write that passed its duplicate check was
\* refused by the store.
C23_Witness ==
    \E a, b \in Procs :
        /\ calls[a].op = "register" /\ calls[a].out = "500_error"
        /\ calls[b].op \in {"profile_update", "admin_update"}
        /\ calls[b].out = "500_error"
        /\ Cardinality(users) > Cardinality(SeedUsers)

(***************************************************************************)
(* Every operation on the records of an account: alice's two clients log   *)
(* in, rotate, log out, upload and read the history, while the admin       *)
(* updates and deletes her account.                                        *)
(***************************************************************************)
FrameRecords == 2

FrameNext ==
    \/ \E c \in Callers :
          /\ jwt_decode(calls[c].access, now) # "payload"
          /\ LoginAuthenticate(c, DeleteLogin[1], DeleteLogin[2])
    \/ \E c \in Callers : LoginInsert(c)
    \/ \E c \in Callers, token \in PresentableTokens : RefreshFind(c, token)
    \/ \E c \in Callers : RefreshUser(c)
    \/ \E c \in Callers : RefreshInsert(c)
    \/ \E c \in Callers : RefreshRevoke(c)
    \/ \E c \in Callers, token \in PresentableTokens : Logout(c, token)
    \/ \E c \in Callers : \E jwt \in HeldJwts(c), upload \in {Upload("image/png")} :
          /\ BagCardinality(ocr_requests) + Cardinality(WillSave) < FrameRecords
          /\ ExtractRequest(c, jwt, upload)
    \/ \E c \in Callers : ExtractCheck(c)
    \/ \E c \in Callers : ExtractRecognize(c)
    \/ \E c \in Callers : ExtractSave(c)
    \/ \E c \in Callers : \E jwt \in HeldJwts(c), limit \in {1, STANDARD_USER_HISTORY_LIMIT} :
          HistoryRequest(c, jwt, limit)
    \/ \E c \in Callers : HistoryFind(c)
    \/ \E target \in SessionTargets, data \in SessionBodies :
          AdminUpdateCall(Admin, target, data)
    \/ AdminUpdateWrite(Admin)
    \/ AdminUpdateReload(Admin)
    \/ \E target \in SessionTargets, admin \in Admins :
          AdminDeleteCall(Admin, target, admin)
    \/ AdminDeleteUser(Admin)
    \/ AdminDeleteTokens(Admin)
    \/ AdminDeleteOcr(Admin)

SpecFrame == Init /\ [][FrameNext]_vars

\* A step of admin_delete_user.
DeleteStep == \E a \in Procs : calls[a].op = "admin_delete" /\ calls'[a] # calls[a]

\* C24: only admin_delete_user removes an account, a refresh credential or a
\* usage record, and nothing changes a usage record that exists: every other
\* step keeps each account and each credential (their fields may be set) and
\* keeps every usage record as it is.
C24_OnlyDeleteRemoves ==
    [][ ~DeleteStep =>
          /\ \A u \in users : \E v \in users' : v._id = u._id
          /\ \A d \in refresh_tokens : \E e \in refresh_tokens' : e._id = d._id
          /\ ocr_requests \sqsubseteq ocr_requests'
      ]_vars

C24_Witness ==
    \E a, b \in Callers :
        /\ calls[a].op = "logout" /\ calls[a].out = "detail"
        /\ \E d \in refresh_tokens : d.token = calls[a].token /\ d.revoked
        /\ calls[b].op = "ocr_history" /\ calls[b].out = "history"
        /\ Len(calls[b].page) = 1
        /\ BagCardinality(ocr_requests) = FrameRecords
        /\ calls[Admin].op = "admin_update" /\ calls[Admin].out = "updated"
        /\ Cardinality(refresh_tokens) = MaxTokens

\* The clock has passed the expiry of a credential that was never revoked.
Expired(d, clock) == ~d.revoked /\ d.expires_at <= clock

\* A rotation of c starts, with the token of credential d.
RotationStarts(c, d) ==
    ~InFlight(c) /\ CallStep(c) /\ calls'[c].op = "refresh"
        /\ calls'[c].token = d.token

\* A step of a rotation or of a logout.
SessionStep ==
    \E c \in Callers : CallStep(c) /\ calls'[c].op \in {"refresh", "logout"}

\* C25: an expired credential (never revoked, the clock past its expiry) and
\* a consumed one (revoked) are final: a rotation that starts with such a
\* token is rejected, and no step of a rotation or of a logout changes the
\* stored record.
C25_TerminalCredentials ==
    [][ \A d \in refresh_tokens : (Expired(d, now) \/ d.revoked) =>
          /\ \A c \in Callers :
                RotationStarts(c, d) => calls'[c].out = "401_refresh_token"
          /\ SessionStep => d \in refresh_tokens'
      ]_vars

(***************************************************************************)
(* The access token and its paired refresh token: alice's clients log in,  *)
(* rotate and log out with any refresh token issued, and present the       *)
(* access tokens they were given, up to and past their expiry.             *)
(***************************************************************************)
PairedInstants == {AccessTTL - 1, AccessTTL}

PairedNext ==
    \/ \E c \in Callers :
          /\ calls[c].op = "idle"
          /\ LoginAuthenticate(c, DeleteLogin[1], DeleteLogin[2])
    \/ \E c \in Callers : LoginInsert(c)
    \/ \E c \in Callers, token \in PresentableTokens : RefreshFind(c, token)
    \/ \E c \in Callers : RefreshUser(c)
    \/ \E c \in Callers : RefreshInsert(c)
    \/ \E c \in Callers : RefreshRevoke(c)
    \/ \E c \in Callers, token \in PresentableTokens : Logout(c, token)
    \/ \E c \in Callers : \E jwt \in OwnJwts(c) : ReadUsersMe(c, jwt)
    \/ Tick(PairedInstants)

SpecPaired == Init /\ [][PairedNext]_vars

\* C26: whether a token authenticates is decided by the token, the clock and
\* the accounts, whatever the refresh credentials are: an access token of an
\* active account authenticates until its own expiry, also after the refresh
\* token issued with it was logged out or rotated.
C26_AccessOutlivesRefresh ==
    [][ \A c \in Callers : MeStep(c) =>
          calls'[c].out =
             IF WellSigned(calls'[c].jwt) /\ ExpiryOf(calls'[c].jwt) > now
                  /\ ActiveAccount(calls'[c].jwt.sub)
             THEN "profile"
             ELSE IF WellSigned(calls'[c].jwt) /\ ExpiryOf(calls'[c].jwt) > now
                       /\ get_user_by_username(users, calls'[c].jwt.sub) # {}
                  THEN "401_disabled" ELSE "401_credentials"
      ]_vars

\* The profile is read with an access token when every refresh credential of
\* the store is revoked: one by logout, one by rotation and logout.
C26_Witness ==
    \E c \in Callers :
        /\ calls[c].op = "users_me" /\ calls[c].out = "profile"
        /\ Cardinality(refresh_tokens) = MaxTokens
        /\ \A d \in refresh_tokens : d.revoked
        /\ now > 0

Owned(id) == \E u \in users : u._id = id

\* C27: whenever no admin_delete_user is under way, every stored refresh
\* credential and every usage record is owned by an account that exists, also
\* when the deletion of the account interleaved with a login, a rotation or
\* an upload of that account.
C27_ReferentialIntegrity ==
    (calls[Admin].pc = "done")
        => /\ \A d \in refresh_tokens : Owned(d.user_id)
           /\ \A r \in DOMAIN ocr_requests : Owned(r.user_id)

(***************************************************************************)
(* The last admin: root and alice, whom root may promote, update and       *)
(* delete accounts through the /admin endpoints, each naming an account by *)
(* its _id as the application prints it.                                   *)
(***************************************************************************)
LastAdminBodies == { Body({}, {}, {}, {TRUE}), Body({}, {}, {}, {FALSE}) }

LastAdminNext ==
    \/ \E c \in Callers :
          /\ calls[c].op = "idle"
          /\ LoginAuthenticate(c, AdminLogins[c][1], AdminLogins[c][2])
    \/ \E c \in Callers : LoginInsert(c)
    \/ \E c \in Callers : \E jwt \in HeldJwts(c),
          target \in { u._id : u \in users }, data \in LastAdminBodies :
             AdminUpdateRequest(c, jwt, str_id(target), data)
    \/ \E c \in Callers : AdminUpdateFind(c)
    \/ \E c \in Callers : AdminUpdateWrite(c)
    \/ \E c \in Callers : AdminUpdateReload(c)
    \/ \E c \in Callers : \E jwt \in HeldJwts(c), target \in { u._id : u \in users } :
          AdminDeleteRequest(c, jwt, target)
    \/ \E c \in Callers : AdminDeleteFind(c)
    \/ \E c \in Callers : AdminDeleteUser(c)
    \/ \E c \in Callers : AdminDeleteTokens(c)
    \/ \E c \in Callers : AdminDeleteOcr(c)

SpecLastAdmin == Init /\ [][LastAdminNext]_vars

\* C28: an account with is_admin = true exists in every state, whatever admin
\* updates and admin deletions are made and however they interleave.
C28_AdminRemains == \E u \in users : u.is_admin

(***************************************************************************)
(* Rotation, step by step: alice's clients log in, rotate and log out with *)
(* any refresh token issued; a rotation may be aborted before its revoke;  *)
(* the admin may delete alice; the clock passes the expiry of the first    *)
(* credentials.                                                            *)
(***************************************************************************)
RotateNext ==
    \/ \E c \in Callers :
          /\ calls[c].op = "idle"
          /\ LoginAuthenticate(c, DeleteLogin[1], DeleteLogin[2])
    \/ \E c \in Callers : LoginInsert(c)
    \/ \E c \in Callers, token \in PresentableTokens : RefreshFind(c, token)
    \/ \E c \in Callers : RefreshUser(c)
    \/ \E c \in Callers : RefreshInsert(c)
    \/ \E c \in Callers : RefreshRevoke(c)
    \/ \E c \in Callers : RefreshAbort(c)
    \/ \E c \in Callers, token \in PresentableTokens : Logout(c, token)
    \/ \E target \in SessionTargets, admin \in Admins :
          AdminDeleteCall(Admin, target, admin)
    \/ AdminDeleteUser(Admin)
    \/ AdminDeleteTokens(Admin)
    \/ AdminDeleteOcr(Admin)
    \/ Tick(SessionInstants)

SpecRotate == Init /\ [][RotateNext]_vars

\* The credential a rotation of c found, as the store holds it now, and the
\* one it inserted.
OldOf(c) == { d \in refresh_tokens : d._id = calls[c].doc._id }
NewOf(c) == { d \in refresh_tokens : d.token = calls[c].refresh }

\* The rotation of c is between its insert and its revoke.
Between(c) == calls[c].pc = "rot_revoke"

\* C29 as claimed: in every state between the insert and the revoke of a
\* rotation both the old and the new token are valid.
C29_BothValidBetween ==
    \A c \in Callers : Between(c) =>
        /\ \E d \in OldOf(c) : Valid(d, now)
        /\ \E d \in NewOf(c) : Valid(d, now)

\* C29 (as amended): a rotation inserts the new credential before it revokes
\* the old one and takes nothing back.  Its insert adds one credential and
\* leaves the others as they are; between insert and revoke the new
\* credential is valid unless admin_delete_user removed it, and the old
\* record is changed only by another call (a logout, a rotation, a deletion);
\* an abort at that point changes nothing in the store, so that the old
\* token, if it is valid then, and the new one are both valid afterwards.
C29_InsertBeforeRevoke ==
    [][ \A c \in Callers :
          /\ (calls[c].pc = "rot_insert" /\ CallStep(c)) =>
                /\ Between(c)'
                /\ refresh_tokens \subseteq refresh_tokens'
                /\ Cardinality(refresh_tokens') = Cardinality(refresh_tokens) + 1
          /\ Between(c)' => \A d \in NewOf(c)' : Valid(d, now')
          /\ (Between(c)' /\ NewOf(c)' = {}) => (DeleteStep \/ NewOf(c) = {})
          /\ (Between(c) /\ Between(c)' /\ OldOf(c)' # OldOf(c)) =>
                \E k \in Procs \ {c} : CallStep(k)
          /\ (Between(c) /\ CallStep(c) /\ calls'[c].out = "aborted") =>
                refresh_tokens' = refresh_tokens
      ]_vars

\* A rotation was aborted, and its old and its new token are both valid.
C29_Witness ==
    \E c \in Callers :
        /\ calls[c].op = "refresh" /\ calls[c].out = "aborted"
        /\ \E d, e \in refresh_tokens :
              /\ d.token = calls[c].token /\ Valid(d, now)
              /\ e.token = calls[c].refresh /\ Valid(e, now)

\* The account is stored with is_active = false.
Disabled(id) == \E u \in users : u._id = id /\ ~u.is_active

\* C30: while an account is disabled no credential is issued for it and none
\* of its credentials is revoked: a login with the right secret and a
\* rotation with a valid token of the account that start then are rejected and
\* leave the credentials as they are.
C30_DisabledGetsNothing ==
    [][ \A c \in Callers :
          /\ (~InFlight(c) /\ CallStep(c) /\ calls'[c].op = "login")
                => (calls'[c].out = "401_login" \/ ~Disabled(calls'[c].user._id))
          /\ (~InFlight(c) /\ CallStep(c) /\ calls'[c].op = "refresh"
                /\ \E d \in refresh_tokens :
                      d.token = calls'[c].token /\ Disabled(d.user_id))
                => calls'[c].out = "401_refresh_token" \/ calls'[c].pc = "rot_user"
          /\ (calls[c].pc = "rot_user" /\ CallStep(c)
                /\ Disabled(calls[c].doc.user_id))
                => calls'[c].out = "401_user" /\ refresh_tokens' = refresh_tokens
      ]_vars

====
